---- MODULE Spec2Model ----
(***************************************************************************)
(* A model of lmd's response assembly (response.go): column resolution,    *)
(* backend selection, the local and the passthrough collector, the         *)
(* post-processing (sort, offset, limit, stats) and the wire encoder.      *)
(*                                                                         *)
(* Go indexes are 0-based and kept so; At(s, i) reads s[i] of the code.    *)
(***************************************************************************)
EXTENDS Integers, Sequences, FiniteSets, TLC

VARIABLES
  req,            \* *Request of the call
  res,            \* *Response being built / sent
  DataStore,      \* peer id -> Peer (ID, Name, Status)
  pc,             \* position of the request-handling goroutine
  err,            \* BuildResponse's named result err
  indexes,        \* BuildResponse's indexes
  selectedPeers,  \* BuildResponse's selectedPeers
  spinUps,        \* calls made to SpinUpPeers, in order (each a list of ids)
  localCalls,     \* peers whose BuildLocalResponseData ran, in order
  collected,      \* res.Result as handed to BuildResponsePostProcessing
  backendColumns, \* BuildPassThroughResult's backendColumns
  virtColumns,    \* BuildPassThroughResult's virtColumns
  loopIdx,        \* position of the collector's "for _, id := range peers"
  perr,           \* BuildPassThroughResult's named result err (shared by the units)
  unit,           \* peer id -> the state of the goroutine launched for it
  m,              \* peer id -> holder of that loop iteration's "m := sync.Mutex{}"
  mapWriters,     \* who is inside an assignment to the res.Failed map
  waitgroup,      \* the WaitGroup's counter
  queries,        \* child requests handed to peer.Query, in order
  conn,           \* what Send wrote to the connection, in order
  bytesSend,      \* promFrontendBytesSend
  sendRet         \* what Send returned: size and err; failed: the writes that failed

vars == << req, res, DataStore, pc, err, indexes, selectedPeers, spinUps,
           localCalls, collected, backendColumns, virtColumns, loopIdx, perr,
           unit, m, mapWriters, waitgroup, queries, conn, bytesSend, sendRet >>

(***************************************************************************)
(* Bounds of the model.                                                    *)
(***************************************************************************)
MaxRows == 3          \* rows handed to the post-processing / sent
MaxOffset == 4        \* largest request Offset
MaxLimit == 3         \* largest request Limit
MaxSpare == 1         \* spare capacity an append may leave behind a slice
MaxPeerRows == 1      \* rows one backend answers with

At(s, i) == s[i + 1]
Range(s) == { s[k] : k \in 1..Len(s) }
Min2(a, b) == IF a < b THEN a ELSE b
NoErr == ""

(***************************************************************************)
(* Cells.  A cell is an interface{} value: t is its dynamic type, n its    *)
(* number, s its characters (a string is the sequence of its bytes), and   *)
(* src says where the value came from: <<peer, row, column>>.              *)
(***************************************************************************)
Num(n, src) == [t |-> "float64", n |-> n, d |-> 1, s |-> << >>, src |-> src]
Int0 == [t |-> "int", n |-> 0, d |-> 1, s |-> << >>, src |-> <<0, 0, 0>>]
Str(s, src) == [t |-> "string", n |-> 0, d |-> 1, s |-> s, src |-> src]
NaN(src) == [t |-> "NaN", n |-> 0, d |-> 1, s |-> << >>, src |-> src]
List(src) == [t |-> "list", n |-> 0, d |-> 1, s |-> << >>, src |-> src]
NilRow == << >>

\* NumberToFloat: the number of a cell as a float64, whatever its numeric type
NumberToFloat(c) == IF c.t \in {"float64", "int", "int64"} THEN c.n ELSE 0

RECURSIVE Gcd(_, _)
Gcd(a, b) == IF b = 0 THEN a ELSE Gcd(b, a % b)
Abs(a) == IF a < 0 THEN 0 - a ELSE a
\* float64(a) / float64(b) for b > 0, kept as the reduced fraction n/d
FloatDiv(a, b) ==
  LET g == Gcd(Abs(a), b)
  IN [t |-> "float64", n |-> a \div g, d |-> b \div g, s |-> << >>, src |-> <<0, 0, 0>>]

\* Go's s1 < s2 on strings: bytewise lexicographic
RECURSIVE StrLess(_, _)
StrLess(a, b) ==
  IF Len(b) = 0 THEN FALSE
  ELSE IF Len(a) = 0 THEN TRUE
  ELSE IF Head(a) # Head(b) THEN Head(a) < Head(b)
  ELSE StrLess(Tail(a), Tail(b))

\* strings.ToLower on the column names the model uses
ToLower(name) ==
  CASE name = "State" -> "state"
    [] name = "KEY" -> "key"
    [] OTHER -> name

(***************************************************************************)
(* Slices.  A [][]interface{} is its rows, its capacity and whether it is  *)
(* nil; the backing array behind the length holds nil rows.                *)
(***************************************************************************)
NilSlice == [isnil |-> TRUE, rows |-> << >>, cap |-> 0]
MakeSlice(n) == [isnil |-> FALSE, rows |-> [k \in 1..n |-> NilRow], cap |-> n]
Backing(R) == R.rows \o [k \in 1..(R.cap - Len(R.rows)) |-> NilRow]
\* R[lo:hi] panics unless 0 <= lo <= hi <= cap(R)
SliceOK(R, lo, hi) == 0 <= lo /\ lo <= hi /\ hi <= R.cap
Slice(R, lo, hi) ==
  [isnil |-> FALSE,
   rows |-> [k \in 1..(hi - lo) |-> Backing(R)[lo + k]],
   cap |-> R.cap - lo]
\* append(R, rows...): in place while the capacity lasts, else a new array
\* whose capacity exceeds the new length by spare
AppendRows(R, rows, spare) ==
  LET n == Len(R.rows) + Len(rows)
  IN IF Len(rows) = 0 THEN R
     ELSE [isnil |-> FALSE, rows |-> R.rows \o rows,
           cap |-> IF n <= R.cap THEN R.cap ELSE n + spare]

(***************************************************************************)
(* The schema (Objects.Tables) and the virtual column catalog.             *)
(***************************************************************************)
Col(name, type, update) == [Name |-> name, Type |-> type, Update |-> update]

ZeroTable ==
  [Name |-> "", Columns |-> << >>, PassthroughOnly |-> FALSE,
   DynamicColCacheIndexes |-> << >>]

Tables ==
  [t \in {"hosts", "log", "tables", "contacts"} |->
    CASE t = "hosts" ->
           [Name |-> "hosts",
            Columns |-> << Col("name", "StringCol", "StaticUpdate"),
                           Col("state", "IntCol", "DynamicUpdate"),
                           Col("services", "StringListCol", "RefNoUpdate"),
                           Col("lmd_last_cache_update", "IntCol", "VirtUpdate"),
                           Col("key", "VirtCol", "RefNoUpdate") >>,
            PassthroughOnly |-> FALSE,
            DynamicColCacheIndexes |-> <<1>>]
      [] t = "log" ->
           [Name |-> "log",
            Columns |-> << Col("time", "IntCol", "StaticUpdate"),
                           Col("message", "StringCol", "StaticUpdate"),
                           Col("key", "VirtCol", "RefNoUpdate"),
                           Col("status", "VirtCol", "RefNoUpdate") >>,
            PassthroughOnly |-> TRUE,
            DynamicColCacheIndexes |-> << >>]
      [] t = "tables" ->
           [Name |-> "tables",
            Columns |-> << Col("name", "StringCol", "StaticUpdate") >>,
            PassthroughOnly |-> FALSE,
            DynamicColCacheIndexes |-> << >>]
      [] t = "contacts" ->
           [Name |-> "contacts",
            Columns |-> << Col("name", "StringCol", "StaticUpdate"),
                           Col("alias", "StringCol", "RefNoUpdate") >>,
            PassthroughOnly |-> FALSE,
            DynamicColCacheIndexes |-> << >>]]

\* table, _ := Objects.Tables[req.Table]
TableOf(name) == IF name \in DOMAIN Tables THEN Tables[name] ELSE ZeroTable

\* table.ColumnsIndex: name -> index
HasColumn(table, name) == \E k \in 1..Len(table.Columns) : table.Columns[k].Name = name
ColumnsIndex(table, name) ==
  (CHOOSE k \in 1..Len(table.Columns) : table.Columns[k].Name = name) - 1

VirtKeyMap ==
  [k \in {"key", "name", "addr", "status", "bytes_send", "bytes_received",
          "queries", "last_error", "last_online", "last_update",
          "response_time", "state_order", "last_state_change_order"} |->
    CASE k = "key" -> [Index |-> -1, Key |-> "PeerKey", Type |-> "StringCol"]
      [] k = "name" -> [Index |-> -2, Key |-> "PeerName", Type |-> "StringCol"]
      [] k = "addr" -> [Index |-> -4, Key |-> "PeerAddr", Type |-> "StringCol"]
      [] k = "status" -> [Index |-> -5, Key |-> "PeerStatus", Type |-> "IntCol"]
      [] k = "bytes_send" -> [Index |-> -6, Key |-> "BytesSend", Type |-> "IntCol"]
      [] k = "bytes_received" -> [Index |-> -7, Key |-> "BytesReceived", Type |-> "IntCol"]
      [] k = "queries" -> [Index |-> -8, Key |-> "Querys", Type |-> "IntCol"]
      [] k = "last_error" -> [Index |-> -9, Key |-> "LastError", Type |-> "StringCol"]
      [] k = "last_online" -> [Index |-> -10, Key |-> "LastOnline", Type |-> "TimeCol"]
      [] k = "last_update" -> [Index |-> -11, Key |-> "LastUpdate", Type |-> "TimeCol"]
      [] k = "response_time" -> [Index |-> -12, Key |-> "ReponseTime", Type |-> "FloatCol"]
      [] k = "state_order" -> [Index |-> -13, Key |-> "", Type |-> "IntCol"]
      [] k = "last_state_change_order" -> [Index |-> -14, Key |-> "", Type |-> "IntCol"]]

(***************************************************************************)
(* Request.BuildResponseIndexes                                            *)
(***************************************************************************)
\* ExpandedColumn without the test of the column's Type
ExpandedColumnByUpdate(col) ==
  \/ col.Update = "StaticUpdate"
  \/ col.Update = "DynamicUpdate"
  \/ col.Update = "VirtUpdate"

\* the columns a request without Columns and Stats expands to
ExpandedColumn(col) ==
  \/ col.Update = "StaticUpdate"
  \/ col.Update = "DynamicUpdate"
  \/ col.Update = "VirtUpdate"
  \/ col.Type = "VirtCol"

ColumnNames(cols) == [k \in 1..Len(cols) |-> cols[k].Name]

\* "if no column header was given, return all columns"
ExpandRequestColumns(q, table) ==
  IF Len(q.Columns) = 0 /\ Len(q.Stats) = 0
  THEN [q EXCEPT !.SendColumnsHeader = TRUE,
                 !.Columns = ColumnNames(SelectSeq(table.Columns, ExpandedColumn))]
  ELSE q

VirtKey(col) ==
  IF col \in DOMAIN VirtKeyMap THEN VirtKeyMap[col]
  ELSE [Index |-> 0, Key |-> "", Type |-> "ColumnType(0)"]

\* one round of "for j, col := range req.Columns" for a known column
ResolvedIndex(table, name) ==
  LET col == ToLower(name)
      i == ColumnsIndex(table, col)
  IN IF At(table.Columns, i).Type = "VirtCol" THEN VirtKey(col).Index ELSE i

ResolvedColumn(table, name, j) ==
  LET col == ToLower(name)
      i == ColumnsIndex(table, col)
  IN IF At(table.Columns, i).Type = "VirtCol"
     THEN [Name |-> col, Type |-> VirtKey(col).Type, Index |-> j, RefIndex |-> i]
     ELSE [Name |-> col, Type |-> At(table.Columns, i).Type, Index |-> j, RefIndex |-> 0]

\* the first k with flags[k], or Len(flags) + 1: where a loop with an early return stops
FirstBad(flags) ==
  IF \E k \in 1..Len(flags) : flags[k]
  THEN CHOOSE k \in 1..Len(flags) : flags[k] /\ \A l \in 1..(k - 1) : ~flags[l]
  ELSE Len(flags) + 1

\* requestColumnsMap[name]: a later column of the same name replaces an earlier one
InRequestColumnsMap(columns, name) == \E k \in 1..Len(columns) : columns[k].Name = name
RequestColumnsMap(columns, name) ==
  columns[CHOOSE k \in 1..Len(columns) :
            /\ columns[k].Name = name
            /\ \A l \in (k + 1)..Len(columns) : columns[l].Name # name].Index

\* "check wether our sort columns do exist in the output": the error of one sort field
SortFieldError(q, table, columns, s) ==
  IF ~HasColumn(table, s.Name)
  THEN "bad request: table " \o q.Table \o " has no column " \o s.Name \o " to sort"
  ELSE IF ~InRequestColumnsMap(columns, s.Name)
  THEN "bad request: sort column " \o s.Name \o " not in result set"
  ELSE NoErr

\* returns the request as the call leaves it, indexes, columns and err
BuildResponseIndexes(q0, table) ==
  LET q == ExpandRequestColumns(q0, table)
      stop == FirstBad([j \in 1..Len(q.Columns) |-> ~HasColumn(table, ToLower(q.Columns[j]))])
      ix == [j \in 1..(stop - 1) |-> ResolvedIndex(table, q.Columns[j])]
      columns == [j \in 1..(stop - 1) |-> ResolvedColumn(table, q.Columns[j], j - 1)]
      sstop == FirstBad([k \in 1..Len(q.Sort) |->
                          SortFieldError(q, table, columns, q.Sort[k]) # NoErr])
      sorted == [k \in 1..Len(q.Sort) |->
                  IF k < sstop
                  THEN [q.Sort[k] EXCEPT !.Index = RequestColumnsMap(columns, q.Sort[k].Name)]
                  ELSE q.Sort[k]]
  IN IF stop <= Len(q.Columns)
     THEN [req |-> q, indexes |-> ix, columns |-> columns,
           err |-> "bad request: table " \o q.Table \o " has no column "
                     \o ToLower(q.Columns[stop])]
     ELSE [req |-> [q EXCEPT !.Sort = sorted], indexes |-> ix, columns |-> columns,
           err |-> IF sstop <= Len(q.Sort)
                   THEN SortFieldError(q, table, columns, q.Sort[sstop])
                   ELSE NoErr]

(***************************************************************************)
(* Response.Less and sort.Sort                                             *)
(***************************************************************************)
NumericTypes == {"TimeCol", "IntCol", "FloatCol"}
SortableTypes == NumericTypes \cup {"StringCol", "StringListCol", "IntListCol"}

\* Less from the k-th sort field on, for the rows a = Result[i], b = Result[j]
RECURSIVE LessFrom(_, _, _, _, _)
LessFrom(k, a, b, sort, columns) ==
  IF k > Len(sort) THEN TRUE
  ELSE
    LET s == sort[k]
        Type == At(columns, s.Index).Type
    IN CASE Type \in NumericTypes ->
              LET valueA == NumberToFloat(At(a, s.Index))
                  valueB == NumberToFloat(At(b, s.Index))
              IN IF valueA = valueB THEN LessFrom(k + 1, a, b, sort, columns)
                 ELSE IF s.Direction = "Asc" THEN valueA < valueB
                 ELSE valueA > valueB
         [] Type = "StringCol" ->
              IF At(a, s.Index).t = "string" /\ At(b, s.Index).t = "string"
              THEN LET s1 == At(a, s.Index).s
                       s2 == At(b, s.Index).s
                   IN IF s1 = s2 THEN LessFrom(k + 1, a, b, sort, columns)
                      ELSE IF s.Direction = "Asc" THEN StrLess(s1, s2)
                      ELSE StrLess(s2, s1)
              ELSE s.Direction = "Asc"
         [] Type \in {"StringListCol", "IntListCol"} -> s.Direction = "Asc"
         [] OTHER -> FALSE

\* Less that looks at the first sort field only
LessByFirstField(a, b, sort, columns) ==
  LessFrom(1, a, b, SubSeq(sort, 1, Min2(1, Len(sort))), columns)

Less(a, b, sort, columns) == LessFrom(1, a, b, sort, columns)

\* Less panics when it reaches a sort field of another type
RECURSIVE LessPanicsFrom(_, _, _, _, _)
LessPanicsFrom(k, a, b, sort, columns) ==
  IF k > Len(sort) THEN FALSE
  ELSE
    LET s == sort[k]
        Type == At(columns, s.Index).Type
    IN IF Type \notin SortableTypes THEN TRUE
       ELSE IF Type \in NumericTypes
               /\ NumberToFloat(At(a, s.Index)) = NumberToFloat(At(b, s.Index))
       THEN LessPanicsFrom(k + 1, a, b, sort, columns)
       ELSE IF Type = "StringCol" /\ At(a, s.Index).t = "string"
               /\ At(b, s.Index).t = "string" /\ At(a, s.Index).s = At(b, s.Index).s
       THEN LessPanicsFrom(k + 1, a, b, sort, columns)
       ELSE FALSE

\* Response.Swap
Swap(rows, i, j) ==
  [k \in 1..Len(rows) |-> IF k = i THEN rows[j] ELSE IF k = j THEN rows[i] ELSE rows[k]]

\* sort.Sort on fewer than 12 elements is the insertion sort
\*   for i := a + 1; i < b; i++ { for j := i; j > a && Less(j, j-1); j-- { Swap(j, j-1) } }
RECURSIVE SiftDown(_, _, _, _)
SiftDown(rows, j, sort, columns) ==
  IF j > 1 /\ Less(rows[j], rows[j - 1], sort, columns)
  THEN SiftDown(Swap(rows, j, j - 1), j - 1, sort, columns)
  ELSE rows

RECURSIVE InsertionSort(_, _, _, _)
InsertionSort(rows, i, sort, columns) ==
  IF i > Len(rows) THEN rows
  ELSE InsertionSort(SiftDown(rows, i, sort, columns), i + 1, sort, columns)

SortRows(rows, sort, columns) == InsertionSort(rows, 2, sort, columns)

SortPanics(rows, sort, columns) ==
  \E i, j \in 1..Len(rows) : i # j /\ LessPanicsFrom(1, rows[i], rows[j], sort, columns)

(***************************************************************************)
(* Response.BuildResponsePostProcessing, stage by stage.  A stage takes    *)
(* and returns [Result, ResultTotal, panic]; a panic ends the call.        *)
(***************************************************************************)
\* "sort our result"
SortStage(st, q, columns) ==
  IF st.panic \/ Len(q.Sort) = 0 THEN st
  ELSE IF SortPanics(st.Result.rows, q.Sort, columns) THEN [st EXCEPT !.panic = TRUE]
  ELSE [st EXCEPT !.Result.rows = SortRows(st.Result.rows, q.Sort, columns)]

TotalStage(st) ==
  IF st.panic THEN st
  ELSE IF st.ResultTotal = 0 THEN [st EXCEPT !.ResultTotal = Len(st.Result.rows)]
  ELSE st

\* "apply request offset"
OffsetStage(st, q) ==
  IF st.panic THEN st
  ELSE IF q.Offset > 0
  THEN IF q.Offset > st.ResultTotal
       THEN [st EXCEPT !.Result = MakeSlice(0)]
       ELSE IF SliceOK(st.Result, q.Offset, Len(st.Result.rows))
       THEN [st EXCEPT !.Result = Slice(st.Result, q.Offset, Len(st.Result.rows))]
       ELSE [st EXCEPT !.panic = TRUE]
  ELSE st

\* "apply request limit"
LimitStage(st, q) ==
  IF st.panic THEN st
  ELSE IF q.Limit > 0 /\ q.Limit < st.ResultTotal
  THEN IF SliceOK(st.Result, 0, q.Limit)
       THEN [st EXCEPT !.Result = Slice(st.Result, 0, q.Limit)]
       ELSE [st EXCEPT !.panic = TRUE]
  ELSE st

StatsTypes == {"Counter", "Min", "Max", "Sum", "Average"}

\* "final calculation of stats querys": the cell of one stats spec
StatsCell(s) ==
  LET byType ==
        IF s.StatsType \in {"Counter", "Min", "Max", "Sum"} THEN Num(s.Stats, <<0, 0, 0>>)
        ELSE IF s.StatsCount > 0 THEN FloatDiv(s.Stats, s.StatsCount)
        ELSE Int0
  IN IF s.StatsCount = 0 THEN Int0 ELSE byType

StatsStage(st, q) ==
  IF st.panic \/ Len(q.Stats) = 0 THEN st
  ELSE IF \E k \in 1..Len(q.Stats) : q.Stats[k].StatsType \notin StatsTypes
  THEN [st EXCEPT !.panic = TRUE]
  ELSE [st EXCEPT !.Result =
          [isnil |-> FALSE, cap |-> 1,
           rows |-> << [k \in 1..Len(q.Stats) |-> StatsCell(q.Stats[k])] >>]]

BuildResponsePostProcessing(r, q) ==
  LET st0 == [Result |-> r.Result, ResultTotal |-> r.ResultTotal, panic |-> FALSE]
      st == StatsStage(LimitStage(OffsetStage(TotalStage(
              SortStage(st0, q, r.Columns)), q), q), q)
  IN [res |-> [r EXCEPT !.Result = st.Result, !.ResultTotal = st.ResultTotal],
      panic |-> st.panic]

(***************************************************************************)
(* The peer registry.  DataStoreOrder is the registry order; a peer's     *)
(* Status is written only by the peer's own refresh logic.                 *)
(***************************************************************************)
PeerIds == <<"A", "B", "C">>
PeerNo(id) == CHOOSE k \in 1..Len(PeerIds) : PeerIds[k] = id
DataStoreOrder == SelectSeq(PeerIds, LAMBDA id : id \in DOMAIN DataStore)

Peer(id, status, idling) ==
  [ID |-> id, Name |-> id,
   Status |-> [PeerStatus |-> status, Idling |-> idling, LastError |-> "down:" \o id]]

Registry(n, Statuses, Idlings) ==
  [ (1..n) -> (Statuses \X Idlings) ]

MakeDataStore(n, f) ==
  [id \in { PeerIds[k] : k \in 1..n } |-> Peer(id, f[PeerNo(id)][1], f[PeerNo(id)][2])]

(***************************************************************************)
(* Requests and responses                                                  *)
(***************************************************************************)
Request(table, columns, stats, sort, limit, offset, backends, format) ==
  [Table |-> table, Columns |-> columns, Filter |-> "filter", Stats |-> stats,
   Sort |-> sort, Limit |-> limit, Offset |-> offset, Backends |-> backends,
   OutputFormat |-> format, ResponseFixed16 |-> TRUE, SendColumnsHeader |-> FALSE]

SortField(name, direction) == [Name |-> name, Direction |-> direction, Index |-> 0]
StatsSpec(type, stats, count) == [StatsType |-> type, Stats |-> stats, StatsCount |-> count]

\* res = &Response{Code: 200, Failed: make(map[string]string), Request: req}
NewResponse ==
  [Code |-> 200, Result |-> NilSlice, ResultTotal |-> 0, Error |-> NoErr,
   Failed |-> << >>, Columns |-> << >>]

\* m[k] = v on a map
MapPut(f, k, v) == [x \in DOMAIN f \cup {k} |-> IF x = k THEN v ELSE f[x]]

(***************************************************************************)
(* ExpandRequestBackends                                                   *)
(***************************************************************************)
\* ExpandRequestBackends that accepts a backend the registry does not hold
ExpandRequestBackendsUnchecked(q) ==
  [backendsMap |-> Range(q.Backends), numBackendsReq |-> Len(q.Backends), err |-> NoErr]

ExpandRequestBackends(q) ==
  LET stop == FirstBad([k \in 1..Len(q.Backends) |-> q.Backends[k] \notin DOMAIN DataStore])
  IN IF stop <= Len(q.Backends)
     THEN [backendsMap |-> { q.Backends[k] : k \in 1..(stop - 1) },
           numBackendsReq |-> Len(q.Backends),
           err |-> "bad request: backend " \o q.Backends[stop] \o " does not exist"]
     ELSE [backendsMap |-> Range(q.Backends), numBackendsReq |-> Len(q.Backends),
           err |-> NoErr]

(***************************************************************************)
(* BuildResponse, up to the collector                                      *)
(***************************************************************************)
\* outcome and answered record what the peer's own Query returned
IdleUnit ==
  [pc |-> "none", result |-> << >>, snap |-> NilSlice, text |-> "",
   outcome |-> "none", answered |-> 0]
NoWriters == [in |-> {}, raced |-> {}]

\* the state BuildResponse starts in, for a request and a registry
Start(q, store) ==
  /\ req = q
  /\ res = NewResponse
  /\ DataStore = store
  /\ pc = "start"
  /\ err = NoErr
  /\ indexes = << >>
  /\ selectedPeers = << >>
  /\ spinUps = << >>
  /\ localCalls = << >>
  /\ collected = NilSlice
  /\ backendColumns = << >>
  /\ virtColumns = << >>
  /\ loopIdx = 0
  /\ perr = NoErr
  /\ unit = [id \in DOMAIN store |-> IdleUnit]
  /\ m = [id \in DOMAIN store |-> "free"]
  /\ mapWriters = NoWriters
  /\ waitgroup = 0
  /\ queries = << >>
  /\ conn = << >>
  /\ bytesSend = 0
  /\ sendRet = [size |-> 0, err |-> NoErr, called |-> FALSE, failed |-> {}]

collectorVars == << backendColumns, virtColumns, loopIdx, perr, unit, m, mapWriters,
                    waitgroup, queries >>
sendVars == << conn, bytesSend, sendRet >>

\* lines 107-127: the resolver and the backend check; either error returns
ResolveRequest ==
  LET table == TableOf(req.Table)
      ix == BuildResponseIndexes(req, table)
      be == ExpandRequestBackends(ix.req)
  IN /\ pc = "start"
     /\ req' = ix.req
     /\ IF ix.err # NoErr
        THEN /\ err' = ix.err
             /\ pc' = "returned"
             /\ UNCHANGED << res, indexes >>
        ELSE /\ res' = [res EXCEPT !.Columns = ix.columns]
             /\ indexes' = ix.indexes
             /\ err' = be.err
             /\ pc' = IF be.err # NoErr THEN "returned" ELSE "select"
     /\ UNCHANGED << DataStore, selectedPeers, spinUps, localCalls, collected,
                     collectorVars, sendVars >>

\* the addressed peers in the order the request lists them
AddressedPeersAsListed(q) == IF Len(q.Backends) > 0 THEN q.Backends ELSE DataStoreOrder

\* the peers of the registry the request addresses, in registry order
AddressedPeers(q) ==
  LET be == ExpandRequestBackends(q)
      Addressed(id) == be.numBackendsReq > 0 => id \in be.backendsMap
  IN SelectSeq(DataStoreOrder, Addressed)

\* a wake for every idling peer, whatever the table
NeedsSpinUpWhenIdling(table, id) == DataStore[id].Status.Idling

\* "spin up required?"
NeedsSpinUp(table, id) ==
  /\ ~table.PassthroughOnly
  /\ DataStore[id].Status.Idling
  /\ Len(table.DynamicColCacheIndexes) > 0

IsMetaTable(table) == table.Name = "tables" \/ table.Name = "columns"

\* lines 129-156: selectedPeers, the spin-up, the meta tables
SelectPeers ==
  LET table == TableOf(req.Table)
      selected == AddressedPeers(req)
      NeedsIt(id) == NeedsSpinUp(table, id)
      spinUpPeers == SelectSeq(selected, NeedsIt)
  IN /\ pc = "select"
     /\ spinUps' = IF Len(spinUpPeers) > 0 THEN Append(spinUps, spinUpPeers) ELSE spinUps
     /\ selectedPeers' = IF IsMetaTable(table) THEN << DataStoreOrder[1] >> ELSE selected
     /\ pc' = IF table.PassthroughOnly THEN "passthrough" ELSE "local"
     /\ loopIdx' = 1
     /\ UNCHANGED << req, res, DataStore, err, indexes, localCalls, collected,
                     backendColumns, virtColumns, perr, unit, m, mapWriters, waitgroup,
                     queries, sendVars >>

(***************************************************************************)
(* Aggregation mode: lines 165-172.  Peer.BuildLocalResponseData copies    *)
(* the peer's cached rows at the resolved indexes into res.Result.         *)
(***************************************************************************)
\* the cached value of table column i (or of the virtual column with sentinel i)
LocalCell(table, id, j, i, k) ==
  IF i >= 0 /\ At(table.Columns, i).Type = "StringCol"
  THEN Str(<<96 + PeerNo(id), 96 + j>>, <<PeerNo(id), j, k>>)
  ELSE Num(10 * PeerNo(id) + j, <<PeerNo(id), j, k>>)

LocalRows(table, id, n, ix) ==
  [j \in 1..n |-> [k \in 1..Len(ix) |-> LocalCell(table, id, j, ix[k], k - 1)]]

BuildLocalResponseData(r, table, id, n, ix, spare) ==
  [r EXCEPT !.Result = AppendRows(r.Result, LocalRows(table, id, n, ix), spare)]

LocalLoop ==
  LET table == TableOf(req.Table)
  IN /\ pc = "local"
     /\ IF loopIdx > Len(selectedPeers)
        THEN /\ pc' = "post"
             /\ UNCHANGED << res, localCalls, loopIdx >>
        ELSE \E n \in 0..MaxPeerRows, spare \in 0..MaxSpare :
               /\ res' = BuildLocalResponseData(res, table, selectedPeers[loopIdx], n,
                                                indexes, spare)
               /\ localCalls' = Append(localCalls, selectedPeers[loopIdx])
               /\ IF IsMetaTable(table)
                  THEN pc' = "post" /\ UNCHANGED loopIdx
                  ELSE pc' = "local" /\ loopIdx' = loopIdx + 1
     /\ UNCHANGED << req, DataStore, err, indexes, selectedPeers, spinUps, collected,
                     backendColumns, virtColumns, perr, unit, m, mapWriters, waitgroup,
                     queries, sendVars >>

(***************************************************************************)
(* Passthrough mode: Response.BuildPassThroughResult                       *)
(***************************************************************************)
IsVirtual(col) == col.RefIndex > 0

\* lines 389-403
PassThroughBegin ==
  /\ pc = "passthrough"
  /\ res' = [res EXCEPT !.Result = MakeSlice(0)]
  /\ backendColumns' = ColumnNames(SelectSeq(res.Columns, LAMBDA col : ~IsVirtual(col)))
  /\ virtColumns' = SelectSeq(res.Columns, IsVirtual)
  /\ loopIdx' = 1
  /\ pc' = "loop"
  /\ UNCHANGED << req, DataStore, err, indexes, selectedPeers, spinUps, localCalls,
                  collected, perr, unit, m, mapWriters, waitgroup, queries, sendVars >>

\* Entering an assignment to the res.Failed map.  The map is not safe for
\* concurrent writers: when another writer is inside, the runtime may stop the
\* process ("fatal error: concurrent map writes") or let both go on.
EnterMap(who) ==
  [in |-> mapWriters.in \cup {who},
   raced |-> IF mapWriters.in # {} THEN mapWriters.raced \cup mapWriters.in \cup {who}
             ELSE mapWriters.raced]
LeaveMap(who) ==
  [in |-> mapWriters.in \ {who}, raced |-> mapWriters.raced \ {who}]
\* what the map holds after who's assignment: a write that raced may be lost
FailedAfter(who, key, text) ==
  {MapPut(res.Failed, key, text)} \cup
    (IF who \in mapWriters.raced THEN {res.Failed} ELSE {})

\* lines 405-417, a peer that is Down: m.Lock(), res.Failed[p.ID] = ...
PeerDownBegin ==
  /\ pc = "loop"
  /\ loopIdx <= Len(selectedPeers)
  /\ LET id == selectedPeers[loopIdx]
     IN /\ DataStore[id].Status.PeerStatus = "PeerStatusDown"
        /\ m[id] = "free"
        /\ m' = [m EXCEPT ![id] = "main"]
        /\ mapWriters' = EnterMap("main")
        /\ \/ pc' = "down"
           \/ mapWriters.in # {} /\ pc' = "fatal"
  /\ UNCHANGED << req, res, DataStore, err, indexes, selectedPeers, spinUps, localCalls,
                  collected, backendColumns, virtColumns, loopIdx, perr, unit, waitgroup,
                  queries, sendVars >>

\* ... m.Unlock(), continue
PeerDownEnd ==
  /\ pc = "down"
  /\ LET id == selectedPeers[loopIdx]
     IN /\ \E f \in FailedAfter("main", DataStore[id].ID, DataStore[id].Status.LastError) :
             res' = [res EXCEPT !.Failed = f]
        /\ m' = [m EXCEPT ![id] = "free"]
  /\ mapWriters' = LeaveMap("main")
  /\ loopIdx' = loopIdx + 1
  /\ pc' = "loop"
  /\ UNCHANGED << req, DataStore, err, indexes, selectedPeers, spinUps, localCalls,
                  collected, backendColumns, virtColumns, perr, unit, waitgroup,
                  queries, sendVars >>

\* lines 419-420: waitgroup.Add(1); go func(...)
Launch ==
  /\ pc = "loop"
  /\ loopIdx <= Len(selectedPeers)
  /\ LET id == selectedPeers[loopIdx]
     IN /\ DataStore[id].Status.PeerStatus # "PeerStatusDown"
        /\ unit' = [unit EXCEPT ![id].pc = "query"]
  /\ waitgroup' = waitgroup + 1
  /\ loopIdx' = loopIdx + 1
  /\ UNCHANGED << req, res, DataStore, pc, err, indexes, selectedPeers, spinUps,
                  localCalls, collected, backendColumns, virtColumns, perr, m,
                  mapWriters, queries, sendVars >>

\* the end of the loop
LoopEnd ==
  /\ pc = "loop"
  /\ loopIdx > Len(selectedPeers)
  /\ pc' = "wait"
  /\ UNCHANGED << req, res, DataStore, err, indexes, selectedPeers, spinUps, localCalls,
                  collected, collectorVars, sendVars >>

\* line 461: waitgroup.Wait(), then return; BuildResponse drops the err returned
\* (line 160) and tests its own err (line 161)
Wait ==
  /\ pc = "wait"
  /\ waitgroup = 0
  /\ pc' = IF err # NoErr THEN "returned" ELSE "post"
  /\ UNCHANGED << req, res, DataStore, err, indexes, selectedPeers, spinUps, localCalls,
                  collected, collectorVars, sendVars >>

(***************************************************************************)
(* The goroutine launched for one peer: lines 420-458                      *)
(***************************************************************************)
Alive == pc \in {"loop", "down", "wait"}

\* a child request that forwards the parent's Columns as they are
PassthroughRequestParentColumns ==
  [Table |-> req.Table, Columns |-> req.Columns, Filter |-> req.Filter,
   Stats |-> req.Stats, Sort |-> << >>, Limit |-> req.Limit, Offset |-> 0,
   Backends |-> << >>, OutputFormat |-> "json", ResponseFixed16 |-> TRUE,
   SendColumnsHeader |-> FALSE]

\* lines 423-431
PassthroughRequest ==
  [Table |-> req.Table, Columns |-> backendColumns, Filter |-> req.Filter,
   Stats |-> req.Stats, Sort |-> << >>, Limit |-> req.Limit, Offset |-> 0,
   Backends |-> << >>, OutputFormat |-> "json", ResponseFixed16 |-> TRUE,
   SendColumnsHeader |-> FALSE]

\* line 433: peer.Query(passthroughRequest) is called
QueryCall(id) ==
  /\ Alive
  /\ unit[id].pc = "query"
  /\ queries' = Append(queries, [peer |-> id, request |-> PassthroughRequest])
  /\ unit' = [unit EXCEPT ![id].pc = "inflight"]
  /\ UNCHANGED << req, res, DataStore, pc, err, indexes, selectedPeers, spinUps,
                  localCalls, collected, backendColumns, virtColumns, loopIdx, perr, m,
                  mapWriters, waitgroup, sendVars >>

\* what a backend answers for row j, column k of the child request
BackendCell(id, j, k, name) ==
  IF name = "message" THEN Str(<<96 + PeerNo(id), 96 + j>>, <<PeerNo(id), j, k>>)
  ELSE Num(10 * PeerNo(id) + j, <<PeerNo(id), j, k>>)

BackendRows(id, n, columns) ==
  [j \in 1..n |-> [k \in 1..Len(columns) |-> BackendCell(id, j, k - 1, columns[k])]]

CallError(id) == "err:" \o id

\* line 433: the call returns; "result, err = ..." assigns the unit's result and
\* the err of BuildPassThroughResult, which every unit shares
QueryReturn(id) ==
  /\ Alive
  /\ unit[id].pc = "inflight"
  /\ \/ \E n \in 0..MaxPeerRows :
          /\ unit' = [unit EXCEPT ![id].pc = "check",
                                  ![id].result = BackendRows(id, n, backendColumns),
                                  ![id].outcome = "ok", ![id].answered = n]
          /\ perr' = NoErr
     \/ /\ unit' = [unit EXCEPT ![id].pc = "check", ![id].result = << >>,
                                ![id].outcome = "error"]
        /\ perr' = CallError(id)
  /\ UNCHANGED << req, res, DataStore, pc, err, indexes, selectedPeers, spinUps,
                  localCalls, collected, backendColumns, virtColumns, loopIdx, m,
                  mapWriters, waitgroup, queries, sendVars >>

\* peer.GetRowValue(col.RefIndex, &row, j, table, nil, numPerRow)
GetRowValue(id, refIndex, j, position) ==
  [t |-> "virtual", n |-> refIndex, d |-> 1, s |-> << >>, src |-> <<PeerNo(id), j, position>>]

\* InsertCell without the copy that shifts the later cells
InsertCellNoShift(row, i, value) == [Append(row, Int0) EXCEPT ![i + 1] = value]

\* row = append(row, 0); copy(row[i+1:], row[i:]); row[i] = value
InsertCell(row, i, value) ==
  LET grown == Append(row, Int0)
      copied == [k \in 1..Len(grown) |-> IF k - 1 >= i + 1 THEN grown[k - 1] ELSE grown[k]]
  IN [copied EXCEPT ![i + 1] = value]

\* "insert virtual values": for _, col := range virtColumns, from the k-th on
RECURSIVE InsertVirtual(_, _, _, _, _)
InsertVirtual(row, cols, k, id, j) ==
  IF k > Len(cols) THEN row
  ELSE InsertVirtual(
         InsertCell(row, cols[k].Index, GetRowValue(id, cols[k].RefIndex, j, cols[k].Index)),
         cols, k + 1, id, j)

InsertVirtualValues(result, cols, id) ==
  IF Len(cols) > 0
  THEN [j \in 1..Len(result) |-> InsertVirtual(result[j], cols, 1, id, j)]
  ELSE result

\* lines 435-454: "if err != nil" reads the shared err; else the virtual values
\* are inserted into the unit's own result
CheckErr(id) ==
  /\ Alive
  /\ unit[id].pc = "check"
  /\ IF perr # NoErr
     THEN unit' = [unit EXCEPT ![id].pc = "errored"]
     ELSE unit' = [unit EXCEPT ![id].pc = "ready",
                               ![id].result = InsertVirtualValues(unit[id].result,
                                                                  virtColumns, id)]
  /\ UNCHANGED << req, res, DataStore, pc, err, indexes, selectedPeers, spinUps,
                  localCalls, collected, backendColumns, virtColumns, loopIdx, perr, m,
                  mapWriters, waitgroup, queries, sendVars >>

\* lines 437-438: m.Lock(); res.Failed[p.ID] = err.Error() reads the shared err
\* again (a nil err here is a nil dereference) and enters the map assignment
FailBegin(id) ==
  /\ Alive
  /\ unit[id].pc = "errored"
  /\ m[id] = "free"
  /\ m' = [m EXCEPT ![id] = id]
  /\ IF perr = NoErr
     THEN pc' = "panicked" /\ UNCHANGED << unit, mapWriters >>
     ELSE /\ unit' = [unit EXCEPT ![id].pc = "failing", ![id].text = perr]
          /\ mapWriters' = EnterMap(id)
          /\ \/ UNCHANGED pc
             \/ mapWriters.in # {} /\ pc' = "fatal"
  /\ UNCHANGED << req, res, DataStore, err, indexes, selectedPeers, spinUps, localCalls,
                  collected, backendColumns, virtColumns, loopIdx, perr, waitgroup,
                  queries, sendVars >>

\* lines 438-440: the assignment lands; m.Unlock(); return (wg.Done)
FailEnd(id) ==
  /\ Alive
  /\ unit[id].pc = "failing"
  /\ \E f \in FailedAfter(id, DataStore[id].ID, unit[id].text) :
       res' = [res EXCEPT !.Failed = f]
  /\ mapWriters' = LeaveMap(id)
  /\ m' = [m EXCEPT ![id] = "free"]
  /\ unit' = [unit EXCEPT ![id].pc = "done", ![id].result = << >>,
                          ![id].snap = NilSlice, ![id].text = ""]
  /\ waitgroup' = waitgroup - 1
  /\ UNCHANGED << req, DataStore, pc, err, indexes, selectedPeers, spinUps, localCalls,
                  collected, backendColumns, virtColumns, loopIdx, perr, queries,
                  sendVars >>

\* lines 455-456: m.Lock(); the append reads res.Result
AppendBegin(id) ==
  /\ Alive
  /\ unit[id].pc = "ready"
  /\ m[id] = "free"
  /\ m' = [m EXCEPT ![id] = id]
  /\ unit' = [unit EXCEPT ![id].pc = "appending", ![id].snap = res.Result]
  /\ UNCHANGED << req, res, DataStore, pc, err, indexes, selectedPeers, spinUps,
                  localCalls, collected, backendColumns, virtColumns, loopIdx, perr,
                  mapWriters, waitgroup, queries, sendVars >>

\* lines 456-458: res.Result = append(...); m.Unlock(); wg.Done
AppendEnd(id) ==
  /\ Alive
  /\ unit[id].pc = "appending"
  /\ \E spare \in 0..MaxSpare :
       res' = [res EXCEPT !.Result = AppendRows(unit[id].snap, unit[id].result, spare)]
  /\ m' = [m EXCEPT ![id] = "free"]
  /\ unit' = [unit EXCEPT ![id].pc = "done", ![id].result = << >>,
                          ![id].snap = NilSlice, ![id].text = ""]
  /\ waitgroup' = waitgroup - 1
  /\ UNCHANGED << req, DataStore, pc, err, indexes, selectedPeers, spinUps, localCalls,
                  collected, backendColumns, virtColumns, loopIdx, perr, mapWriters,
                  queries, sendVars >>

(***************************************************************************)
(* BuildResponse, after the collector: lines 174-178                       *)
(***************************************************************************)
PostProcessing ==
  LET r == IF res.Result.isnil THEN [res EXCEPT !.Result = MakeSlice(0)] ELSE res
      post == BuildResponsePostProcessing(r, req)
  IN /\ pc = "post"
     /\ collected' = r.Result
     /\ IF post.panic
        THEN pc' = "panicked" /\ res' = r
        ELSE pc' = "returned" /\ res' = post.res
     /\ UNCHANGED << req, DataStore, err, indexes, selectedPeers, spinUps, localCalls,
                     collectorVars, sendVars >>

(***************************************************************************)
(* Response.Send: lines 318-384.  The body is a string; a string cell is   *)
(* the sequence of its bytes.                                              *)
(***************************************************************************)
Letters == << "a", "b", "c", "d", "e", "f", "g", "h", "i", "j", "k", "l", "m",
              "n", "o", "p", "q", "r", "s", "t", "u", "v", "w", "x", "y", "z" >>
Chr(b) == Letters[b - 96]
\* []byte(name) for the column names that are sent as a header
NameBytes(name) ==
  CASE name = "name" -> <<110, 97, 109, 101>>
    [] name = "state" -> <<115, 116, 97, 116, 101>>
    [] name = "services" -> <<115, 101, 114, 118, 105, 99, 101, 115>>

RECURSIVE Join(_, _)
Join(strs, sep) ==
  IF Len(strs) = 0 THEN ""
  ELSE IF Len(strs) = 1 THEN strs[1]
  ELSE strs[1] \o sep \o Join(Tail(strs), sep)

RECURSIVE PadLeft(_, _)
\* the %11d of the status line
PadLeft(str, width) == IF Len(str) >= width THEN str ELSE PadLeft(" " \o str, width)

NilCell == [t |-> "nil", n |-> 0, d |-> 1, s |-> << >>, src |-> <<0, 0, 0>>]
JSONError == "json: unsupported value: NaN"

\* json.Marshal accepts every value the decoder of a backend answer produces
\* and refuses a float that is not a number
SerializableAlways(row) == TRUE

Serializable(row) == \A k \in 1..Len(row) : row[k].t # "NaN"

JSONString(bytes) == "\"" \o Join([k \in 1..Len(bytes) |-> Chr(bytes[k])], "") \o "\""
JSONCell(c) ==
  CASE c.t = "string" -> JSONString(c.s)
    [] c.t \in {"float64", "int", "int64"} /\ c.d = 1 -> ToString(c.n)
    [] c.t = "float64" /\ c.d = 2 -> ToString(c.n \div 2) \o ".5"
    [] c.t = "list" -> "[]"
    [] c.t = "nil" -> "null"
    [] c.t = "NaN" -> "NaN"
\* json.Marshal(row): a nil row is null
JSONRow(R, k) ==
  IF Len(R.rows[k]) = 0 THEN "null"
  ELSE "[" \o Join([i \in 1..Len(R.rows[k]) |-> JSONCell(R.rows[k][i])], ",") \o "]"
\* json.Marshal(res.Failed): the keys in sorted order
JSONFailed(failed) ==
  LET ids == SelectSeq(PeerIds, LAMBDA id : id \in DOMAIN failed)
  IN "{" \o Join([k \in 1..Len(ids) |-> "\"" \o ids[k] \o "\":\"" \o failed[ids[k]] \o "\""], ",")
         \o "}"

\* lines 320-329: the header row goes in front of the rows
WithHeader(r, q) ==
  LET cols == [k \in 1..(Len(q.Columns) + Len(q.Stats)) |->
                 IF k <= Len(q.Columns) THEN Str(NameBytes(q.Columns[k]), <<0, 0, k - 1>>)
                 ELSE NilCell]
      rows == << cols >> \o r.Result.rows
  IN IF q.SendColumnsHeader
     THEN [r EXCEPT !.Result = [isnil |-> FALSE, rows |-> rows, cap |-> Len(rows)]]
     ELSE r

JSONFormats == {"wrapped_json", "json", ""}
\* lines 330-333, 341: the rows are marshalled
Marshals(r, q) == r.Error = NoErr /\ ~r.Result.isnil /\ q.OutputFormat \in JSONFormats

\* lines 330-362: resBytes
ResBytes(r, q) ==
  LET R == r.Result
      open == (IF q.OutputFormat = "wrapped_json" THEN "{\"data\":[" ELSE "")
                \o (IF q.OutputFormat \in {"json", ""} THEN "[" ELSE "")
      rows == IF q.OutputFormat \in JSONFormats
              THEN Join([k \in 1..Len(R.rows) |-> JSONRow(R, k)], ",\n") \o "]"
              ELSE ""
      close == IF q.OutputFormat = "wrapped_json"
               THEN "\n,\"failed\":" \o JSONFailed(r.Failed)
                      \o "\n,\"total\":" \o ToString(r.ResultTotal) \o "}"
               ELSE ""
  IN IF r.Error # NoErr THEN r.Error
     ELSE IF ~R.isnil THEN open \o rows \o close
     ELSE ""

\* size without the trailing newline
SizeOfBody(resBytes) == Len(resBytes)

\* line 364: size = len(resBytes) + 1
SizeOf(resBytes) == Len(resBytes) + 1

WriteError(what) == "write " \o what \o ": broken pipe"

\* Send(c): the whole call; a Write may fail, and then writes nothing
Send ==
  LET r == WithHeader(res, req)
      bad == FirstBad([k \in 1..Len(r.Result.rows) |-> ~Serializable(r.Result.rows[k])])
  IN /\ pc = "returned"
     /\ err = NoErr
     /\ res' = r
     /\ pc' = "sent"
     /\ IF Marshals(r, req) /\ bad <= Len(r.Result.rows)
        THEN /\ sendRet' = [size |-> 0, err |-> JSONError, called |-> TRUE, failed |-> {}]
             /\ UNCHANGED << conn, bytesSend >>
        ELSE \E fail1, fail2, fail3 \in BOOLEAN :
               LET resBytes == ResBytes(r, req)
                   size == SizeOf(resBytes)
                   line == ToString(r.Code) \o " " \o PadLeft(ToString(size), 11) \o "\n"
                   w1 == IF req.ResponseFixed16 /\ ~fail1 THEN << line >> ELSE << >>
                   w2 == IF fail2 THEN << >> ELSE << resBytes >>
                   w3 == IF fail3 THEN << >> ELSE << "\n" >>
               IN /\ conn' = conn \o w1 \o w2 \o w3
                  /\ bytesSend' = bytesSend + Len(resBytes)
                  /\ sendRet' = [size |-> size, called |-> TRUE,
                                 err |-> IF fail3 THEN WriteError("newline") ELSE NoErr,
                                 failed |-> (IF req.ResponseFixed16 /\ fail1 THEN {1} ELSE {})
                                              \cup (IF fail2 THEN {2} ELSE {})
                                              \cup (IF fail3 THEN {3} ELSE {})]
     /\ UNCHANGED << req, DataStore, err, indexes, selectedPeers, spinUps, localCalls,
                     collected, collectorVars >>

(***************************************************************************)
(* Spec: BuildResponse for requests to the passthrough table "log", on a   *)
(* registry of three peers, each Up or Down.                               *)
(***************************************************************************)
PassRequests ==
  { Request("log", <<"time">>, << >>, << >>, 0, 0, << >>, "json"),
    Request("log", <<"key", "time">>, << >>, << SortField("time", "Desc") >>, 1, 2,
            << >>, "json"),
    Request("log", <<"time", "status", "message", "KEY">>, << >>, << >>, 1, 0,
            << >>, "wrapped_json") }

Init ==
  \E q \in PassRequests,
     f \in Registry(Len(PeerIds), {"PeerStatusUp", "PeerStatusDown"}, {FALSE}) :
       Start(q, MakeDataStore(Len(PeerIds), f))

Collector ==
  \/ PassThroughBegin
  \/ PeerDownBegin
  \/ PeerDownEnd
  \/ Launch
  \/ LoopEnd
  \/ Wait
  \/ \E id \in DOMAIN DataStore :
       \/ QueryCall(id)
       \/ QueryReturn(id)
       \/ CheckErr(id)
       \/ FailBegin(id)
       \/ FailEnd(id)
       \/ AppendBegin(id)
       \/ AppendEnd(id)

Next ==
  \/ ResolveRequest
  \/ SelectPeers
  \/ Collector
  \/ PostProcessing

Spec == Init /\ [][Next]_vars

(***************************************************************************)
(* Claims on the passthrough collector                                     *)
(***************************************************************************)
DownPeers ==
  { id \in Range(selectedPeers) : DataStore[id].Status.PeerStatus = "PeerStatusDown" }
ErroredPeers == { id \in Range(selectedPeers) : unit[id].outcome = "error" }
SucceededPeers == { id \in Range(selectedPeers) : unit[id].outcome = "ok" }
\* BuildPassThroughResult has just returned
CollectorReturned == pc = "post" /\ TableOf(req.Table).PassthroughOnly

\* C1: when the collector returns, Failed holds exactly the Down peers, each
\* with its LastError, and the peers whose own Query failed, each with its
\* own error text; a peer whose own Query succeeded has no entry.
C1_FailedIsExact ==
  CollectorReturned =>
    /\ DOMAIN res.Failed = DownPeers \cup ErroredPeers
    /\ \A id \in DownPeers : res.Failed[id] = DataStore[id].Status.LastError
    /\ \A id \in ErroredPeers : res.Failed[id] = CallError(id)

\* the peer and the row number a collected row came from
RowId(row) == << row[1].src[1], row[1].src[2] >>
AnsweredRows ==
  UNION { { << PeerNo(id), j >> : j \in 1..unit[id].answered } : id \in SucceededPeers }

\* C2: when the collector returns, Result holds every row of every peer whose
\* own Query succeeded, each exactly once, and no other row.
C2_RowsAreExact ==
  CollectorReturned =>
    /\ { RowId(res.Result.rows[k]) : k \in 1..Len(res.Result.rows) } = AnsweredRows
    /\ Len(res.Result.rows) = Cardinality(AnsweredRows)

\* C5: a passthrough request never fails on peer failures: the process neither
\* stops nor panics, and when BuildResponse returns it returns no error, with
\* Response.Error unset, Result non-nil and the post-processing done.
C5_PeerFailureNeverFails ==
  TableOf(req.Table).PassthroughOnly =>
    /\ pc \notin {"fatal", "panicked"}
    /\ pc = "returned" =>
         /\ err = NoErr
         /\ res.Error = NoErr
         /\ ~res.Result.isnil
         /\ ~collected.isnil

\* whether the schema says the requested column is virtual
SchemaVirtual(name) ==
  LET table == TableOf(req.Table)
  IN At(table.Columns, ColumnsIndex(table, name)).Type = "VirtCol"
\* how many real columns are requested before output position k
RealBefore(k) ==
  Cardinality({ l \in 1..(k - 1) : ~SchemaVirtual(res.Columns[l].Name) })
\* the row has one cell per requested column: a virtual column's value at its
\* output position, the backend's cells at the other positions, in their order
ExpectedCell(row, k) ==
  LET name == res.Columns[k].Name
      id == PeerIds[row[1].src[1]]
      j == row[1].src[2]
  IN IF SchemaVirtual(name)
     THEN GetRowValue(id, ColumnsIndex(TableOf(req.Table), name), j, k - 1)
     ELSE BackendCell(id, j, RealBefore(k), name)
RowHasRequestedShape(row) ==
  /\ Len(row) = Len(req.Columns)
  /\ \A k \in 1..Len(row) : row[k] = ExpectedCell(row, k)

PostColumns == <<"state", "name", "services">>

\* the j-th collected row
PostRow(j, state, name) ==
  << Num(state, <<0, j, 0>>), Str(name, <<0, j, 1>>), List(<<0, j, 2>>) >>

PostRowSets(n) ==
  LET choice == [ (1..n) -> ({1, 2} \X {<<97>>, <<97, 98>>}) ]
  IN { [j \in 1..n |-> PostRow(j, c[j][1], c[j][2])] : c \in choice }

PostSorts ==
  { << >> } \cup
  { << SortField(n, d) >> : n \in {"state", "name", "services"}, d \in {"Asc", "Desc"} } \cup
  { << SortField("state", d1), SortField("name", d2) >> : d1, d2 \in {"Asc", "Desc"} } \cup
  { << SortField("name", "Desc"), SortField("state", "Asc") >>,
    << SortField("state", "Asc"), SortField("services", "Desc"), SortField("name", "Asc") >> }

PostStats ==
  { << StatsSpec(t, a, c) >> : t \in StatsTypes, a \in {0, 3, 7}, c \in {0, 2} } \cup
  { << StatsSpec("Average", 7, 2), StatsSpec("Sum", 3, 0), StatsSpec("Min", 4, 1) >>,
    << StatsSpec("Average", 6, 0), StatsSpec("Counter", 5, 2) >> }

\* the request as BuildResponseIndexes leaves it, and the response before the
\* post-processing
PostState(q0, rows, spare, isnil) ==
  LET ix == BuildResponseIndexes(q0, TableOf("hosts"))
  IN /\ req = ix.req
     /\ res = [NewResponse EXCEPT
                 !.Columns = ix.columns,
                 !.Result = IF isnil THEN NilSlice
                            ELSE [isnil |-> FALSE, rows |-> rows, cap |-> Len(rows) + spare]]
     /\ indexes = ix.indexes
     /\ pc = "post"
     /\ err = NoErr
     /\ DataStore = MakeDataStore(Len(PeerIds), [k \in 1..Len(PeerIds) |-> <<"PeerStatusUp", FALSE>>])
     /\ selectedPeers = << >>
     /\ spinUps = << >>
     /\ localCalls = << >>
     /\ collected = NilSlice
     /\ backendColumns = << >>
     /\ virtColumns = << >>
     /\ loopIdx = 0
     /\ perr = NoErr
     /\ unit = [id \in Range(PeerIds) |-> IdleUnit]
     /\ m = [id \in Range(PeerIds) |-> "free"]
     /\ mapWriters = NoWriters
     /\ waitgroup = 0
     /\ queries = << >>
     /\ conn = << >>
     /\ bytesSend = 0
     /\ sendRet = [size |-> 0, err |-> NoErr, called |-> FALSE, failed |-> {}]

PostInit ==
  \E n \in 0..MaxRows, o \in 0..MaxOffset, l \in 0..MaxLimit, spare \in 0..MaxSpare :
    \/ \E rows \in PostRowSets(n), so \in PostSorts :
         PostState(Request("hosts", PostColumns, << >>, so, l, o, << >>, "json"),
                   rows, spare, FALSE)
    \/ \E st \in PostStats :
         PostState(Request("hosts", PostColumns, st, << >>, l, o, << >>, "json"),
                   [j \in 1..n |-> PostRow(j, 1, <<97>>)], spare, FALSE)
    \/ /\ n = 0 /\ spare = 0
       /\ PostState(Request("hosts", PostColumns, << >>, << >>, l, o, << >>, "json"),
                    << >>, 0, TRUE)

SpecPost == PostInit /\ [][PostProcessing]_vars

PostDone == pc \in {"returned", "panicked"} /\ ~collected.isnil
CollectedCount == Len(collected.rows)
\* the collected rows as the sort stage leaves them
SortedRows ==
  IF Len(req.Sort) > 0 THEN SortRows(collected.rows, req.Sort, res.Columns)
  ELSE collected.rows
ExpectedCount ==
  IF req.Offset > CollectedCount THEN 0
  ELSE IF req.Limit > 0 THEN Min2(CollectedCount - req.Offset, req.Limit)
  ELSE CollectedCount - req.Offset

\* C3: without Stats, the post-processing completes normally and keeps
\* min(N - Offset, Limit) rows (N - Offset when Limit = 0, none when
\* Offset > N): the rows at positions Offset.. of the sorted result, in order.
C3_OffsetThenLimit ==
  (PostDone /\ Len(req.Stats) = 0) =>
    /\ pc = "returned"
    /\ Len(res.Result.rows) = ExpectedCount
    /\ res.Result.rows = SubSeq(SortedRows, req.Offset + 1, req.Offset + ExpectedCount)

\* the cell the claim gives a stats spec
ClaimedStatsCell(s) ==
  IF s.StatsCount = 0 THEN Int0
  ELSE IF s.StatsType = "Average" THEN FloatDiv(s.Stats, s.StatsCount)
  ELSE Num(s.Stats, <<0, 0, 0>>)

\* C6: with Stats specs, whatever Limit, Offset and the collected row count,
\* the post-processing leaves exactly one row of len(Stats) cells: 0 for a
\* spec with sample count 0, else the accumulator (divided by the count for
\* Average).
C6_StatsRow ==
  (PostDone /\ Len(req.Stats) > 0) =>
    /\ pc = "returned"
    /\ Len(res.Result.rows) = 1
    /\ Len(res.Result.rows[1]) = Len(req.Stats)
    /\ \A k \in 1..Len(req.Stats) : res.Result.rows[1][k] = ClaimedStatsCell(req.Stats[k])

\* the sort field's key of a row, and whether two rows differ on it
ComparableTypes == NumericTypes \cup {"StringCol"}
SortKeyType(s) == At(res.Columns, s.Index).Type
KeysDiffer(a, b, s) ==
  IF SortKeyType(s) = "StringCol" THEN At(a, s.Index).s # At(b, s.Index).s
  ELSE At(a, s.Index).n # At(b, s.Index).n
KeyIsSmaller(a, b, s) ==
  IF SortKeyType(s) = "StringCol" THEN StrLess(At(a, s.Index).s, At(b, s.Index).s)
  ELSE At(a, s.Index).n < At(b, s.Index).n
\* the first sort field on which the rows differ (Len + 1: none)
FirstDifference(a, b) ==
  FirstBad([k \in 1..Len(req.Sort) |-> KeysDiffer(a, b, req.Sort[k])])
DecidedByFirstDifference(a, b) ==
  LET k == FirstDifference(a, b)
  IN k <= Len(req.Sort) =>
       (Less(a, b, req.Sort, res.Columns) <=>
          IF req.Sort[k].Direction = "Asc" THEN KeyIsSmaller(a, b, req.Sort[k])
          ELSE KeyIsSmaller(b, a, req.Sort[k]))
\* the rows of Result that were collected stand in the order of collection
KeepsCollectedOrder ==
  \A i, j \in 1..Len(res.Result.rows) :
    (i < j /\ res.Result.rows[i] # NilRow /\ res.Result.rows[j] # NilRow) =>
      /\ res.Result.rows[i][1].src[2] < res.Result.rows[j][1].src[2]
      /\ res.Result.rows[i] \in Range(collected.rows)
      /\ res.Result.rows[j] \in Range(collected.rows)

\* C7: on numeric and String sort keys Less decides two rows by the first key
\* on which they differ, in that key's direction; without sort keys the
\* post-processing keeps the rows in the order they were collected.
C7_FirstDifferingKeyDecides ==
  PostDone =>
    /\ (\A k \in 1..Len(req.Sort) : SortKeyType(req.Sort[k]) \in ComparableTypes) =>
         \A i, j \in 1..Len(collected.rows) :
           DecidedByFirstDifference(collected.rows[i], collected.rows[j])
    /\ (Len(req.Sort) = 0 /\ Len(req.Stats) = 0 /\ pc = "returned") =>
         KeepsCollectedOrder

\* sorted by two keys, two rows equal on the first key and different on the second
C7_Witness ==
  /\ PostDone /\ pc = "returned"
  /\ Len(req.Sort) = 2
  /\ \A k \in 1..Len(req.Sort) : SortKeyType(req.Sort[k]) \in ComparableTypes
  /\ \E i, j \in 1..Len(collected.rows) :
       FirstDifference(collected.rows[i], collected.rows[j]) = 2

(***************************************************************************)
(* SpecReq: BuildResponse for requests on every table, with known and      *)
(* unknown columns, sort columns and backends, on a registry of two peers. *)
(***************************************************************************)
ReqTables == {"hosts", "log", "tables", "contacts"}
ReqColumns ==
  { << >>, <<"name">>, <<"State", "name">>, <<"name", "bogus">>, <<"key", "time">> }
ReqSorts ==
  { << >>, << SortField("name", "Asc") >>, << SortField("bogus", "Asc") >>,
    << SortField("state", "Desc") >>, << SortField("name", "Desc"), SortField("State", "Asc") >> }
ReqBackends == { << >>, <<"B">>, <<"B", "A">>, <<"A", "Z">> }
ReqStats == { << >>, << StatsSpec("Counter", 3, 2) >> }
ReqPeers == { <<"PeerStatusUp", FALSE>>, <<"PeerStatusUp", TRUE>>, <<"PeerStatusDown", FALSE>> }

ReqInit ==
  \E t \in ReqTables, c \in ReqColumns, so \in ReqSorts, b \in ReqBackends,
     st \in ReqStats, header \in BOOLEAN, f \in [ (1..2) -> ReqPeers ] :
       Start([Request(t, c, st, so, 0, 0, b, "json") EXCEPT !.SendColumnsHeader = header],
             MakeDataStore(2, f))

ReqNext ==
  \/ ResolveRequest
  \/ SelectPeers
  \/ LocalLoop
  \/ Collector
  \/ PostProcessing

SpecReq == ReqInit /\ [][ReqNext]_vars

\* what is wrong with the request
UnknownColumns ==
  { ToLower(req.Columns[k]) : k \in 1..Len(req.Columns) } \
  { TableOf(req.Table).Columns[k].Name : k \in 1..Len(TableOf(req.Table).Columns) }
UnknownBackends == Range(req.Backends) \ DOMAIN DataStore
SortsNotInSchema ==
  { req.Sort[k].Name : k \in 1..Len(req.Sort) } \
  { TableOf(req.Table).Columns[k].Name : k \in 1..Len(TableOf(req.Table).Columns) }
SortsNotInOutput ==
  { req.Sort[k].Name : k \in 1..Len(req.Sort) } \
  { ToLower(req.Columns[k]) : k \in 1..Len(req.Columns) }
\* a request without columns and stats asks for the expanded columns
AsksForColumns == Len(req.Columns) > 0 \/ Len(req.Stats) > 0
IsBadRequest ==
  \/ UnknownColumns # {}
  \/ UnknownBackends # {}
  \/ SortsNotInSchema # {}
  \/ AsksForColumns /\ SortsNotInOutput # {}
BadRequestErrors ==
  { "bad request: table " \o req.Table \o " has no column " \o c : c \in UnknownColumns } \cup
  { "bad request: backend " \o b \o " does not exist" : b \in UnknownBackends } \cup
  { "bad request: table " \o req.Table \o " has no column " \o c \o " to sort" :
      c \in SortsNotInSchema } \cup
  { "bad request: sort column " \o c \o " not in result set" : c \in SortsNotInOutput }

\* C4: a request naming an unknown column, an unknown backend or a sort column
\* missing from the schema or from the output makes BuildResponse return a
\* bad-request error naming the item; no spin-up is signalled, no cached rows
\* are copied, no Query is sent and the post-processing does not run.
C4_BadRequestContactsNoPeer ==
  IsBadRequest =>
    /\ pc \in {"start", "returned"}
    /\ pc = "returned" => err \in BadRequestErrors
    /\ spinUps = << >>
    /\ localCalls = << >>
    /\ queries = << >>
    /\ \A id \in DOMAIN unit : unit[id].pc = "none"
    /\ res.Result.isnil
    /\ collected.isnil

\* a sort column of the schema that is not among the requested columns
C4_Witness ==
  /\ pc = "returned"
  /\ req.Sort # << >>
  /\ SortsNotInSchema = {} /\ UnknownColumns = {} /\ UnknownBackends = {}
  /\ err = "bad request: sort column state not in result set"

\* the columns a request without Columns and Stats resolves to
ExpandedNames(table) ==
  LET Wanted(col) == \/ col.Update \in {"StaticUpdate", "DynamicUpdate", "VirtUpdate"}
                     \/ col.Type = "VirtCol"
  IN ColumnNames(SelectSeq(table.Columns, Wanted))

\* C9: resolving a request whose Columns and Stats are empty sets the header
\* flag and yields the table's Static, Dynamic, VirtUpdate and Virtual columns
\* in schema order at the output positions 0..N-1; resolving any other request
\* leaves its Columns and the flag as they were.
C9_ExpansionIsExact ==
  [][ pc = "start" =>
        IF Len(req.Columns) = 0 /\ Len(req.Stats) = 0
        THEN /\ req'.SendColumnsHeader
             /\ req'.Columns = ExpandedNames(TableOf(req.Table))
             /\ (err' = NoErr \/ res'.Columns # << >>) =>
                  /\ ColumnNames(res'.Columns) = ExpandedNames(TableOf(req.Table))
                  /\ \A k \in 1..Len(res'.Columns) : res'.Columns[k].Index = k - 1
        ELSE /\ req'.Columns = req.Columns
             /\ req'.SendColumnsHeader = req.SendColumnsHeader ]_vars

\* "hosts" expanded to its four columns, the virtual one included
C9_Witness ==
  /\ pc # "start"
  /\ req.Table = "hosts"
  /\ req.SendColumnsHeader
  /\ ColumnNames(res.Columns) = <<"name", "state", "lmd_last_cache_update", "key">>

(***************************************************************************)
(* SpecSend: Send on the responses a request handler hands to it: a        *)
(* response BuildResponse built, or an error response without rows.        *)
(***************************************************************************)
SendRow(j, bad) ==
  << IF j = bad THEN NaN(<<0, j, 0>>) ELSE Num(j, <<0, j, 0>>),
     Str(<<96 + j, 98>>, <<0, j, 1>>), List(<<0, j, 2>>) >>

SendRequests ==
  { [Request("hosts", c, << >>, << >>, 0, 0, << >>, f)
       EXCEPT !.ResponseFixed16 = fixed, !.SendColumnsHeader = header] :
      c \in { <<"state", "name", "services">> }, f \in JSONFormats,
      fixed \in BOOLEAN, header \in BOOLEAN }

SendFailed == { << >>, MapPut(<< >>, "B", "down"), MapPut(MapPut(<< >>, "C", "x"), "A", "y") }

SendState(q, r) ==
  /\ req = q
  /\ res = r
  /\ indexes = << >>
  /\ pc = "returned"
  /\ err = NoErr
  /\ DataStore = MakeDataStore(Len(PeerIds), [k \in 1..Len(PeerIds) |-> <<"PeerStatusUp", FALSE>>])
  /\ selectedPeers = << >>
  /\ spinUps = << >>
  /\ localCalls = << >>
  /\ collected = NilSlice
  /\ backendColumns = << >>
  /\ virtColumns = << >>
  /\ loopIdx = 0
  /\ perr = NoErr
  /\ unit = [id \in Range(PeerIds) |-> IdleUnit]
  /\ m = [id \in Range(PeerIds) |-> "free"]
  /\ mapWriters = NoWriters
  /\ waitgroup = 0
  /\ queries = << >>
  /\ conn = << >>
  /\ bytesSend = 0
  /\ sendRet = [size |-> 0, err |-> NoErr, called |-> FALSE, failed |-> {}]

SendInit ==
  \E q \in SendRequests :
    \/ \E n \in 0..MaxRows, bad \in 0..MaxRows, extra \in 0..1, failed \in SendFailed :
         /\ bad <= n
         /\ SendState(q, [NewResponse EXCEPT
                             !.Result = [isnil |-> FALSE, cap |-> n,
                                         rows |-> [j \in 1..n |-> SendRow(j, bad)]],
                             !.ResultTotal = n + extra,
                             !.Failed = failed])
    \/ \E e \in { "bad request: table hosts has no column bogus" } :
         SendState(q, [NewResponse EXCEPT !.Code = 400, !.Error = e])

SpecSend == SendInit /\ [][Send]_vars

\* a row holding a float that is not a number has no JSON encoding
Unencodable(row) == \E k \in 1..Len(row) : row[k].t = "NaN"

\* C10: when a row of Result cannot be serialized, Send returns the encoding
\* error, has written nothing to the connection (no status line, no body, no
\* newline) and has not incremented the bytes-sent counter.
C10_UnencodableRowWritesNothing ==
  (sendRet.called /\ \E k \in 1..Len(res.Result.rows) : Unencodable(res.Result.rows[k])) =>
    /\ sendRet.err = JSONError
    /\ sendRet.size = 0
    /\ conn = << >>
    /\ bytesSend = 0

\* the third row cannot be serialized, the rows before it can; a status line
\* was requested
C10_Witness ==
  /\ sendRet.called
  /\ req.ResponseFixed16 /\ ~req.SendColumnsHeader
  /\ Len(res.Result.rows) = 3
  /\ ~Unencodable(res.Result.rows[1]) /\ ~Unencodable(res.Result.rows[2])
  /\ Unencodable(res.Result.rows[3])

\* the body the response asks for, written out independently of Send
ClaimedRow(row) ==
  "[" \o Join([i \in 1..Len(row) |-> JSONCell(row[i])], ",") \o "]"
ClaimedBody ==
  LET rows == Join([k \in 1..Len(res.Result.rows) |-> ClaimedRow(res.Result.rows[k])], ",\n")
  IN IF res.Error # NoErr THEN res.Error
     ELSE IF req.OutputFormat = "wrapped_json"
     THEN "{\"data\":[" \o rows \o "]\n,\"failed\":" \o JSONFailed(res.Failed)
            \o "\n,\"total\":" \o ToString(res.ResultTotal) \o "}"
     ELSE "[" \o rows \o "]"
\* the length field: right-justified in 11 characters
ClaimedLengthField(n) ==
  LET digits == ToString(n)
  IN Join([k \in 1..(11 - Len(digits)) |-> " "], "") \o digits
AllRowsEncodable == \A k \in 1..Len(res.Result.rows) : ~Unencodable(res.Result.rows[k])
\* Send ran to its end and no write to the connection failed
SentUnbroken == sendRet.called /\ AllRowsEncodable /\ sendRet.failed = {}

\* C11: with fixed framing and every row serializable, Send writes the status
\* line "<Code> <length in 11 characters>\n", then the body, then one newline,
\* where length = body byte length + 1; without fixed framing only the body
\* and the newline.  The size returned is body byte length + 1.
C11_FramingIsExact ==
  (sendRet.called /\ AllRowsEncodable) =>
    /\ sendRet.size = Len(ClaimedBody) + 1
    /\ sendRet.failed = {} =>
         conn = (IF req.ResponseFixed16
                 THEN << ToString(res.Code) \o " "
                           \o ClaimedLengthField(Len(ClaimedBody) + 1) \o "\n" >>
                 ELSE << >>) \o << ClaimedBody, "\n" >>

\* a body of 42 bytes sent with code 200 and the length field 43
C11_Witness ==
  /\ SentUnbroken
  /\ req.ResponseFixed16
  /\ Len(conn) = 3
  /\ Len(conn[2]) = 42
  /\ conn[1] = "200          43\n"

\* C12: when BuildResponsePostProcessing returns, with or without Stats, for
\* every Offset, Limit and collected row count, ResultTotal >= len(Result).
C12_TotalCoversResult ==
  (PostDone /\ pc = "returned") => res.ResultTotal >= Len(res.Result.rows)

\* the units inside a section that writes res.Failed or appends to res.Result
UnitsInSection == { id \in DOMAIN unit : unit[id].pc \in {"failing", "appending"} }

\* C13: at most one unit at a time is inside a section that appends to Result
\* or writes Failed, and no unit holds its lock while its Query is in flight.
C13_UnitsExcludeEachOther ==
  /\ Cardinality(UnitsInSection) <= 1
  /\ \A id \in DOMAIN unit : unit[id].pc \in {"query", "inflight"} => m[id] = "free"

(***************************************************************************)
(* SpecLive: BuildResponse for requests to "log" on a registry of two      *)
(* peers, with a fair scheduler: the request's goroutine and every unit    *)
(* keep running while they can, and every peer.Query returns.              *)
(***************************************************************************)
LivePeerIds == <<"A", "B">>
LiveInit ==
  \E q \in PassRequests,
     f \in Registry(Len(LivePeerIds), {"PeerStatusUp", "PeerStatusDown"}, {FALSE}) :
       Start(q, MakeDataStore(Len(LivePeerIds), f))

\* the steps of the goroutine that handles the request
Main ==
  \/ ResolveRequest
  \/ SelectPeers
  \/ PassThroughBegin
  \/ PeerDownBegin
  \/ PeerDownEnd
  \/ Launch
  \/ LoopEnd
  \/ Wait
  \/ PostProcessing
\* the steps of the unit launched for one peer
Unit(id) ==
  \/ QueryCall(id)
  \/ QueryReturn(id)
  \/ CheckErr(id)
  \/ FailBegin(id)
  \/ FailEnd(id)
  \/ AppendBegin(id)
  \/ AppendEnd(id)

SpecLive ==
  /\ LiveInit
  /\ [][Next]_vars
  /\ WF_vars(Main)
  /\ \A id \in Range(LivePeerIds) : WF_vars(Unit(id))

\* the selected peers that are not Down: the peers a unit is launched for
LaunchedPeers == Range(selectedPeers) \ DownPeers
\* every unit is launched before the wait, and all have finished after it
JoinBarrier ==
  /\ pc = "wait" => \A id \in LaunchedPeers : unit[id].pc # "none"
  /\ CollectorReturned => \A id \in LaunchedPeers : unit[id].pc = "done"

\* C14: BuildPassThroughResult launches every unit before it waits, returns
\* only after every launched unit has finished, and, every peer call
\* returning, eventually returns.
C14_JoinBarrier ==
  /\ []JoinBarrier
  /\ (pc = "passthrough") ~> CollectorReturned

\* how many child requests were handed to the peer's Query
QueriesTo(id) == Cardinality({ k \in 1..Len(queries) : queries[k].peer = id })

\* C15: a peer that is Down is never sent a child Query and has its LastError
\* in Failed before the join barrier is entered; every selected peer that is
\* not Down is sent exactly one child Query.
C15_DownPeersAreSkipped ==
  TableOf(req.Table).PassthroughOnly =>
    /\ \A id \in DownPeers : QueriesTo(id) = 0
    /\ \A id \in DOMAIN DataStore : QueriesTo(id) <= 1
    /\ pc = "wait" =>
         \A id \in DownPeers :
           id \in DOMAIN res.Failed /\ res.Failed[id] = DataStore[id].Status.LastError
    /\ CollectorReturned => \A id \in LaunchedPeers : QueriesTo(id) = 1

\* the part of C15 on the child queries alone
QueriesAreExact ==
  TableOf(req.Table).PassthroughOnly =>
    /\ \A id \in DownPeers : QueriesTo(id) = 0
    /\ \A id \in DOMAIN DataStore : QueriesTo(id) <= 1
    /\ CollectorReturned => \A id \in LaunchedPeers : QueriesTo(id) = 1

\* the parent's resolved columns that the schema does not call virtual
RealColumnNames ==
  LET Real(col) == ~SchemaVirtual(col.Name)
  IN ColumnNames(SelectSeq(res.Columns, Real))
ChildIsReduced(child) ==
  /\ child.Table = req.Table
  /\ child.Filter = req.Filter
  /\ child.Stats = req.Stats
  /\ child.Limit = req.Limit
  /\ child.OutputFormat = "json"
  /\ child.ResponseFixed16
  /\ child.Columns = RealColumnNames
ChildrenAreReduced == \A k \in 1..Len(queries) : ChildIsReduced(queries[k].request)

NamedPeers ==
  LET Named(id) == Len(req.Backends) = 0 \/ \E k \in 1..Len(req.Backends) : req.Backends[k] = id
  IN SelectSeq(DataStoreOrder, Named)
ExpectedContributors ==
  IF req.Table \in {"tables", "columns"} THEN << DataStoreOrder[1] >> ELSE NamedPeers
Selected == pc \notin {"start", "select"} /\ err = NoErr

\* C17: the peers that contribute are the registered peers the request's
\* Backends name (all of them when Backends is empty), visited in registry
\* order; for "tables" and "columns" the first registered peer alone, once.
C17_ContributorsInRegistryOrder ==
  Selected =>
    /\ selectedPeers = ExpectedContributors
    /\ (pc \in {"post", "returned"} /\ ~TableOf(req.Table).PassthroughOnly) =>
         localCalls = ExpectedContributors
    /\ TableOf(req.Table).PassthroughOnly =>
         /\ localCalls = << >>
         /\ \A k \in 1..Len(queries) :
              queries[k].peer \in Range(ExpectedContributors) \ DownPeers
         /\ CollectorReturned =>
              \A id \in Range(ExpectedContributors) \ DownPeers : QueriesTo(id) = 1

\* Backends lists B before A; A's rows were copied before B's
C17_Witness ==
  /\ pc = "returned"
  /\ req.Backends = <<"B", "A">>
  /\ localCalls = <<"A", "B">>

\* the peers the wake signal has to carry
ExpectedWake ==
  LET table == TableOf(req.Table)
      Idling(id) == DataStore[id].Status.Idling
  IN IF ~table.PassthroughOnly /\ Len(table.DynamicColCacheIndexes) > 0
     THEN SelectSeq(NamedPeers, Idling)
     ELSE << >>

\* C18: SpinUpPeers is called at most once per request, before any peer's
\* data is collected, with exactly the selected idling peers, only for a table
\* that is not passthrough-only and has dynamic columns, and not at all when
\* no such peer is selected.
C18_OneWakeBeforeCollecting ==
  /\ Len(spinUps) <= 1
  /\ pc \in {"start", "select"} => spinUps = << >> /\ localCalls = << >> /\ queries = << >>
  /\ Selected => spinUps = (IF ExpectedWake = << >> THEN << >> ELSE << ExpectedWake >>)
  /\ ~Selected => spinUps = << >>

\* one signal carried both idling peers, and both peers' rows were copied after it
C18_Witness ==
  /\ pc = "returned"
  /\ spinUps = << <<"A", "B">> >>
  /\ localCalls = <<"A", "B">>

\* C19: Send returns an error whenever one of its writes to the connection
\* (status line, body, trailing newline) failed; a later successful write
\* never masks an earlier failure.
C19_WriteErrorIsReturned ==
  (sendRet.called /\ sendRet.failed # {}) => sendRet.err # NoErr

\* C20: the comparator is a strict ordering on the rows it sorts: Less(i, j)
\* and Less(j, i) are never both true, and Less(i, i) is false.
C20_LessIsStrict ==
  (PostDone /\ Len(req.Sort) > 0 /\ ~SortPanics(collected.rows, req.Sort, res.Columns)) =>
    \A i, j \in 1..Len(collected.rows) :
      /\ ~(/\ Less(collected.rows[i], collected.rows[j], req.Sort, res.Columns)
           /\ Less(collected.rows[j], collected.rows[i], req.Sort, res.Columns))
      /\ ~Less(collected.rows[i], collected.rows[i], req.Sort, res.Columns)

====
